---- MODULE Spec2Model ----
(***************************************************************************)
(* Model of app.py: the mask-detection pipeline of the Streamlit script.   *)
(* One behaviour is one run of the script in which the operator provides   *)
(* an image and presses "Analyze Image".  External services (OpenCV        *)
(* cascade, Groq chat completion, SMTP, Twilio) are nondeterministic       *)
(* outcomes drawn from small sets.                                         *)
(***************************************************************************)
EXTENDS Integers, Sequences, FiniteSets, TLC

\* ------------------------------------------------------------------ bounds
MaxFaces == 2
MaxImage == 2

Images == 1..MaxImage
NoImage == 0

\* ------------------------------------------------------- JSON / Python values
\* A scalar is a record [t, v]: its JSON type and its literal text.
JNull == [t |-> "null", v |-> "null"]
JTrue == [t |-> "bool", v |-> "true"]
JFalse == [t |-> "bool", v |-> "false"]
JNum(lit) == [t |-> "num", v |-> lit]
JStr(s) == [t |-> "str", v |-> s]

EmptyFields == [k \in {} |-> JNull]

\* A parsed top-level value: a scalar, an array or an object (dict).
Top(s) == [t |-> s.t, v |-> s.v, fields |-> EmptyFields]
JArray(lit) == [t |-> "array", v |-> lit, fields |-> EmptyFields]
JObject(f) == [t |-> "object", v |-> "{..}", fields |-> f]

\* Python None (also what json.loads gives for the text null).
None == Top(JNull)

MaskValues == {JTrue, JFalse, JNull, JNum("0"), JNum("1"), JStr(""), JStr("false")}
ReasonValues == {JStr("visible nose and mouth"), JStr(""), JNull}

Objects ==
    {JObject(EmptyFields)}
    \cup {JObject([k \in {"mask_detected"} |-> m]) : m \in MaskValues}
    \cup {JObject([k \in {"reason"} |-> r]) : r \in ReasonValues}
    \cup {JObject([k \in {"confidence"} |-> JNum("1")])}
    \cup {JObject([k \in {"mask_detected", "reason"} |->
                     IF k = "mask_detected" THEN m ELSE r]) :
             m \in MaskValues, r \in ReasonValues}

JsonValues ==
    Objects
    \cup {Top(s) : s \in {JNull, JTrue, JFalse, JNum("0"), JNum("1"), JStr(""), JStr("x")}}
    \cup {JArray("[]"), JArray("[1]")}

\* What the chat completion call can produce: a raised exception, or a
\* response whose content is well-formed JSON text or not.
Responses ==
    {[raised |-> TRUE, wellformed |-> FALSE, value |-> None]}
    \cup {[raised |-> FALSE, wellformed |-> FALSE, value |-> None]}
    \cup {[raised |-> FALSE, wellformed |-> TRUE, value |-> j] : j \in JsonValues}

\* variant: only the boolean true counts as mask detected
TruthyScalar_StrictBool(s) == s = JTrue

\* Python truthiness of a scalar / of a parsed value.
TruthyScalar(s) ==
    CASE s.t = "null" -> FALSE
      [] s.t = "bool" -> s.v = "true"
      [] s.t = "num" -> s.v # "0"
      [] s.t = "str" -> s.v # ""
      [] OTHER -> TRUE

\* variant: the result is not tested before it is used
Truthy_Always(j) == TRUE

Truthy(j) ==
    CASE j.t = "object" -> DOMAIN j.fields # {}
      [] j.t = "array" -> j.v # "[]"
      [] OTHER -> TruthyScalar([t |-> j.t, v |-> j.v])

\* str(x) as an f-string renders it.
PyStr(s) ==
    CASE s.t = "null" -> "None"
      [] s.t = "bool" -> (IF s.v = "true" THEN "True" ELSE "False")
      [] OTHER -> s.v

\* dict.get(key, default)
DictGet(d, key, default) ==
    IF key \in DOMAIN d.fields THEN d.fields[key] ELSE default

\* only dict has a .get attribute
HasGet(j) == j.t = "object"

\* Texts are sequences of string pieces.
Contains(text, piece) == \E i \in 1..Len(text) : text[i] = piece

Msg(fn, text) == [fn |-> fn, text |-> text]

\* ------------------------------------------------------------ configuration
\* Outcome of reading the eight st.secrets entries.
SecretsOutcomes == {"ok", "FileNotFoundError", "KeyError"}

\* variant: a missing secret does not stop the script
SecretsBranch_NoStop(s) == "Sidebar"

SecretsBranch(s) == IF s = "ok" THEN "Sidebar" ELSE "Stopped"

SecretsMsgs(s) ==
    CASE s = "FileNotFoundError" -> <<Msg("error", <<"Secrets file not found.">>)>>
      [] s = "KeyError" -> <<Msg("error", <<"Missing a secret key in your secrets.toml file: ", "KeyError">>)>>
      [] OTHER -> << >>

\* ------------------------------------------------------------- face locator
\* What the cascade does: it returns n boxes, or something raises.
DetectOutcomes ==
    {[exc |-> "none", n |-> k] : k \in 0..MaxFaces}
    \cup {[exc |-> e, n |-> 0] : e \in {"FileNotFoundError", "Exception"}}

\* A decoded pixel grid: the bytes it was decoded from and the number of
\* rectangles drawn on it.  detect_faces returns the annotated image,
\* the count, and (arg) what the array it was passed holds afterwards.
Pixels(src, boxes) == [src |-> src, boxes |-> boxes]

\* variant: the rectangles are drawn on the caller's array, not on a copy
detect_faces_DrawsInPlace(image_np, o) ==
    CASE o.exc = "none" ->
           [image |-> Pixels(image_np.src, image_np.boxes + o.n), count |-> o.n,
            arg |-> Pixels(image_np.src, image_np.boxes + o.n), msgs |-> << >>]
      [] o.exc = "FileNotFoundError" ->
           [image |-> image_np, count |-> 0, arg |-> image_np,
            msgs |-> <<Msg("error", <<"haarcascade_frontalface_default.xml not found.">>)>>]
      [] OTHER ->
           [image |-> image_np, count |-> 0, arg |-> image_np,
            msgs |-> <<Msg("error", <<"Face detection error: ", o.exc>>)>>]

\* variant: a detection error is reported but counted as one face
detect_faces_ErrorCounts(image_np, o) ==
    CASE o.exc = "none" ->
           [image |-> Pixels(image_np.src, image_np.boxes + o.n), count |-> o.n,
            arg |-> image_np, msgs |-> << >>]
      [] o.exc = "FileNotFoundError" ->
           [image |-> image_np, count |-> 0, arg |-> image_np,
            msgs |-> <<Msg("error", <<"haarcascade_frontalface_default.xml not found.">>)>>]
      [] OTHER ->
           [image |-> image_np, count |-> 1, arg |-> image_np,
            msgs |-> <<Msg("error", <<"Face detection error: ", o.exc>>)>>]

detect_faces(image_np, o) ==
    CASE o.exc = "none" ->
           [image |-> Pixels(image_np.src, image_np.boxes + o.n), count |-> o.n,
            arg |-> image_np, msgs |-> << >>]
      [] o.exc = "FileNotFoundError" ->
           [image |-> image_np, count |-> 0, arg |-> image_np,
            msgs |-> <<Msg("error", <<"haarcascade_frontalface_default.xml not found.">>)>>]
      [] OTHER ->
           [image |-> image_np, count |-> 0, arg |-> image_np,
            msgs |-> <<Msg("error", <<"Face detection error: ", o.exc>>)>>]

\* variant: no short circuit on zero faces
FaceBranch_NoShortCircuit(n) == "Classifying"

FaceBranch(n) == IF n = 0 THEN "NoFace" ELSE "Classifying"

FaceMsgs(n) ==
    IF n = 0
    THEN <<Msg("warning", <<"No faces were detected in the image. Cannot proceed with mask analysis.">>),
           Msg("image", <<"Face Detection Result">>)>>
    ELSE <<Msg("image", <<"Face Detection Result: ", "face(s) found!">>)>>

\* ---------------------------------------------------------- mask classifier
\* json.loads: the parsed value, or a raised JSONDecodeError.
json_loads(resp) ==
    IF resp.wellformed THEN [raised |-> FALSE, value |-> resp.value]
    ELSE [raised |-> TRUE, value |-> None]

\* variant: a failed call yields a default "no mask" verdict instead of None
analyze_image_for_mask_FailOpen(resp) ==
    IF resp.raised \/ json_loads(resp).raised
    THEN [result |-> JObject([k \in {"mask_detected"} |-> JFalse]),
          msgs |-> <<Msg("error", <<"Groq API Error: ", "Exception">>)>>]
    ELSE [result |-> json_loads(resp).value, msgs |-> << >>]

analyze_image_for_mask(resp) ==
    IF resp.raised
    THEN [result |-> None, msgs |-> <<Msg("error", <<"Groq API Error: ", "APIError">>)>>]
    ELSE IF json_loads(resp).raised
    THEN [result |-> None, msgs |-> <<Msg("error", <<"Groq API Error: ", "JSONDecodeError">>)>>]
    ELSE [result |-> json_loads(resp).value, msgs |-> << >>]

\* --------------------------------------------------------- violation decision
\* variant: a missing mask_detected key counts as mask worn
DefaultMask_Safe == JTrue

DefaultMask == JFalse
DefaultReason == JStr("No reason provided.")

StatusMsg(md) ==
    IF TruthyScalar(md)
    THEN Msg("success", <<"**Status:** Mask Detected">>)
    ELSE Msg("error", <<"**Status:** No Mask Detected (Violation)">>)

StatusBranch(md) == IF TruthyScalar(md) THEN "MaskOk" ELSE "Violation"

\* variant: the guard forgets the verdict
ShouldAlert_IgnoresMask(md, enabled) == enabled

\* variant: the guard forgets the sidebar toggle
ShouldAlert_IgnoresToggle(md, enabled) == ~TruthyScalar(md)

ShouldAlert(md, enabled) == ~TruthyScalar(md) /\ enabled

\* ------------------------------------------------------------ alert dispatch
alert_subject == <<"ALERT: Face ", "Mask Violation", " Detected!">>

\* variant: the message body leaves the reason out
alert_body_whatsapp_NoReason(r) ==
    <<"*ALERT: Face ", "Mask Violation", "!*", "*Reason:* ">>

alert_body_whatsapp(r) ==
    <<"*ALERT: Face ", "Mask Violation", "!*", "*Reason:* ", PyStr(r)>>

EmailOutcomes == {"sent", "SMTPException"}
WhatsAppOutcomes == {"sent", "TwilioRestException"}

\* variant: the two calls of lines 201-202 in the other order
DispatchFirst_Swapped == "SendingWhatsApp"

\* the sink called first once the guard of line 197 passed
DispatchFirst == "SendingEmail"

\* MIMEText(body, 'plain') raises inside the try block unless body is a str.
EmailResult(body, o) == IF body.t # "str" THEN "AttributeError" ELSE o

\* try/except of send_alert_email: where the handler continues.
\* variant: without the except clause a delivery failure unwinds the script
EmailNext_Propagates(result) == IF result = "sent" THEN "SendingWhatsApp" ELSE "Crashed"

EmailNext(result) == "SendingWhatsApp"

send_alert_email_msgs(result) ==
    IF result = "sent"
    THEN <<Msg("toast", <<"Email alert sent successfully!">>)>>
    ELSE <<Msg("error", <<"Failed to send email: ", result>>)>>

\* try/except of send_whatsapp_alert: where the handler continues.
WhatsAppNext(result) == "AlertsSent"

send_whatsapp_alert_msgs(result) ==
    IF result = "sent"
    THEN <<Msg("toast", <<"WhatsApp alert sent successfully!">>)>>
    ELSE <<Msg("error", <<"Failed to send WhatsApp message: ", result>>)>>

\* ---------------------------------------------------------------------- state
VARIABLES
    pc,               \* position of the script
    secrets,          \* outcome of loading st.secrets
    alerts_enabled,   \* sidebar toggle
    image_bytes,      \* source_img.getvalue()
    image_cv,         \* decoded pixel grid
    image_with_boxes, \* what detect_faces returned
    num_faces,
    analysis_result,
    mask_detected,
    reason,
    ui,               \* st.* messages shown, in order
    detectLog,        \* calls of detect_faces
    classifierLog,    \* calls of analyze_image_for_mask
    emailLog,         \* calls of send_alert_email
    whatsappLog       \* calls of send_whatsapp_alert

vars == <<pc, secrets, alerts_enabled, image_bytes, image_cv, image_with_boxes,
          num_faces, analysis_result, mask_detected, reason, ui,
          detectLog, classifierLog, emailLog, whatsappLog>>

Init ==
    /\ pc = "Startup"
    /\ secrets = "unread"
    /\ alerts_enabled = TRUE
    /\ image_bytes = NoImage
    /\ image_cv = Pixels(NoImage, 0)
    /\ image_with_boxes = Pixels(NoImage, 0)
    /\ num_faces = 0
    /\ analysis_result = None
    /\ mask_detected = JNull
    /\ reason = JNull
    /\ ui = << >>
    /\ detectLog = << >>
    /\ classifierLog = << >>
    /\ emailLog = << >>
    /\ whatsappLog = << >>

\* lines 23-37
LoadSecrets(s) ==
    /\ pc = "Startup"
    /\ secrets' = s
    /\ ui' = ui \o SecretsMsgs(s)
    /\ pc' = SecretsBranch(s)
    /\ UNCHANGED <<alerts_enabled, image_bytes, image_cv, image_with_boxes,
                   num_faces, analysis_result, mask_detected, reason,
                   detectLog, classifierLog, emailLog, whatsappLog>>

\* line 130
Sidebar(enabled) ==
    /\ pc = "Sidebar"
    /\ alerts_enabled' = enabled
    /\ pc' = "ImageInput"
    /\ UNCHANGED <<secrets, image_bytes, image_cv, image_with_boxes,
                   num_faces, analysis_result, mask_detected, reason, ui,
                   detectLog, classifierLog, emailLog, whatsappLog>>

\* lines 146-165: src = NoImage when nothing was uploaded or captured
ImageInput(src) ==
    /\ pc = "ImageInput"
    /\ IF src = NoImage
       THEN /\ pc' = "NoSource"
            /\ UNCHANGED <<image_bytes, image_cv>>
       ELSE /\ image_bytes' = src
            /\ image_cv' = Pixels(src, 0)
            /\ pc' = "Idle"
    /\ UNCHANGED <<secrets, alerts_enabled, image_with_boxes,
                   num_faces, analysis_result, mask_detected, reason, ui,
                   detectLog, classifierLog, emailLog, whatsappLog>>

\* line 167
AnalyzeClick ==
    /\ pc = "Idle"
    /\ pc' = "FaceCheck"
    /\ UNCHANGED <<secrets, alerts_enabled, image_bytes, image_cv, image_with_boxes,
                   num_faces, analysis_result, mask_detected, reason, ui,
                   detectLog, classifierLog, emailLog, whatsappLog>>

\* lines 169-176
DetectFaces(o) ==
    /\ pc = "FaceCheck"
    /\ LET r == detect_faces(image_cv, o) IN
         /\ image_with_boxes' = r.image
         /\ image_cv' = r.arg
         /\ num_faces' = r.count
         /\ ui' = ui \o r.msgs \o FaceMsgs(r.count)
         /\ pc' = FaceBranch(r.count)
    /\ detectLog' = Append(detectLog, [image |-> image_cv, outcome |-> o])
    /\ UNCHANGED <<secrets, alerts_enabled, image_bytes,
                   analysis_result, mask_detected, reason,
                   classifierLog, emailLog, whatsappLog>>

\* lines 179-180
Classify(resp) ==
    /\ pc = "Classifying"
    /\ LET r == analyze_image_for_mask(resp) IN
         /\ analysis_result' = r.result
         /\ ui' = ui \o r.msgs
    /\ classifierLog' = Append(classifierLog, [image |-> image_bytes, response |-> resp])
    /\ pc' = "Classified"
    /\ UNCHANGED <<secrets, alerts_enabled, image_bytes, image_cv, image_with_boxes,
                   num_faces, mask_detected, reason,
                   detectLog, emailLog, whatsappLog>>

\* lines 182-198
Decide ==
    /\ pc = "Classified"
    /\ IF ~Truthy(analysis_result)
       THEN /\ pc' = "Indeterminate"
            /\ UNCHANGED <<mask_detected, reason, ui>>
       ELSE IF ~HasGet(analysis_result)
       THEN \* AttributeError at line 186, after the subheader was shown
            /\ pc' = "Crashed"
            /\ ui' = Append(ui, Msg("subheader", <<"Analysis Complete">>))
            /\ UNCHANGED <<mask_detected, reason>>
       ELSE LET md == DictGet(analysis_result, "mask_detected", DefaultMask)
                rs == DictGet(analysis_result, "reason", DefaultReason)
            IN /\ mask_detected' = md
               /\ reason' = rs
               /\ ui' = ui \o <<Msg("subheader", <<"Analysis Complete">>),
                                StatusMsg(md),
                                Msg("info", <<"**AI Reason:** ", PyStr(rs)>>)>>
               \* the guard of line 197 is evaluated on both status branches
               /\ pc' = CASE StatusBranch(md) = "Violation" -> "Violation"
                          [] ShouldAlert(md, alerts_enabled) -> DispatchFirst
                          [] OTHER -> "MaskOk"
    /\ UNCHANGED <<secrets, alerts_enabled, image_bytes, image_cv, image_with_boxes,
                   num_faces, analysis_result,
                   detectLog, classifierLog, emailLog, whatsappLog>>

\* lines 197-198
AlertGuard ==
    /\ pc = "Violation"
    /\ IF ShouldAlert(mask_detected, alerts_enabled)
       THEN /\ ui' = Append(ui, Msg("warning", <<"Violation detected! Sending alerts...">>))
            /\ pc' = DispatchFirst
       ELSE /\ pc' = "AlertsSkipped"
            /\ UNCHANGED ui
    /\ UNCHANGED <<secrets, alerts_enabled, image_bytes, image_cv, image_with_boxes,
                   num_faces, analysis_result, mask_detected, reason,
                   detectLog, classifierLog, emailLog, whatsappLog>>

\* line 201 and lines 89-106
SendEmail(o) ==
    /\ pc = "SendingEmail"
    /\ LET result == EmailResult(reason, o) IN
         /\ emailLog' = Append(emailLog, [subject |-> alert_subject, body |-> reason,
                                          image |-> image_bytes, result |-> result])
         /\ ui' = IF EmailNext(result) = "Crashed" THEN ui
                  ELSE ui \o send_alert_email_msgs(result)
         /\ pc' = EmailNext(result)
    /\ UNCHANGED <<secrets, alerts_enabled, image_bytes, image_cv, image_with_boxes,
                   num_faces, analysis_result, mask_detected, reason,
                   detectLog, classifierLog, whatsappLog>>

\* line 202 and lines 109-119
SendWhatsApp(o) ==
    /\ pc = "SendingWhatsApp"
    /\ whatsappLog' = Append(whatsappLog, [body |-> alert_body_whatsapp(reason), result |-> o])
    /\ ui' = IF WhatsAppNext(o) = "Crashed" THEN ui
             ELSE ui \o send_whatsapp_alert_msgs(o)
    /\ pc' = WhatsAppNext(o)
    /\ UNCHANGED <<secrets, alerts_enabled, image_bytes, image_cv, image_with_boxes,
                   num_faces, analysis_result, mask_detected, reason,
                   detectLog, classifierLog, emailLog>>

Next ==
    \/ \E s \in SecretsOutcomes : LoadSecrets(s)
    \/ \E enabled \in BOOLEAN : Sidebar(enabled)
    \/ \E src \in Images \cup {NoImage} : ImageInput(src)
    \/ AnalyzeClick
    \/ \E o \in DetectOutcomes : DetectFaces(o)
    \/ \E resp \in Responses : Classify(resp)
    \/ Decide
    \/ AlertGuard
    \/ \E o \in EmailOutcomes : SendEmail(o)
    \/ \E o \in WhatsAppOutcomes : SendWhatsApp(o)

Spec == Init /\ [][Next]_vars

\* ------------------------------------------------------------------- helpers
Terminal == {"Stopped", "NoSource", "NoFace", "Indeterminate", "MaskOk",
             "AlertsSkipped", "AlertsSent", "Crashed"}

Shown(m) == \E i \in 1..Len(ui) : ui[i] = m

FacesReported == Len(detectLog) > 0

\* the classifier's (only) response, once it was called
Response == classifierLog[1].response
ClassifierCalled == Len(classifierLog) > 0

HasKey(j, k) == j.t = "object" /\ k \in DOMAIN j.fields

\* the verdict is an object whose mask_detected is the JSON value m
VerdictMask(m) ==
    /\ HasKey(analysis_result, "mask_detected")
    /\ analysis_result.fields["mask_detected"] = m

NoSinkInvoked == emailLog = << >> /\ whatsappLog = << >>

StatusViolation == Msg("error", <<"**Status:** No Mask Detected (Violation)">>)
StatusMaskOk == Msg("success", <<"**Status:** Mask Detected">>)

\* ----------------------------------------------------------------------- C1
\* C1: when the face locator reports zero faces, the classifier and both
\* sinks are never invoked and the pipeline is in (and stays in) NoFace.
C1_NoFaceShortCircuit ==
    (FacesReported /\ num_faces = 0) =>
        /\ pc = "NoFace"
        /\ classifierLog = << >>
        /\ NoSinkInvoked

C1_Witness ==
    /\ pc = "NoFace"
    /\ FacesReported
    /\ detectLog[1].outcome = [exc |-> "none", n |-> 0]

\* ----------------------------------------------------------------------- C2
\* C2: with at least one face, a verdict with mask_detected = false and
\* alerts enabled, the run cannot end anywhere but AlertsSent, with exactly
\* one email attempt and exactly one messaging attempt, whatever the result
\* of the email attempt; no sink is ever attempted twice.
C2_BothSinksOnce ==
    /\ Len(emailLog) <= 1 /\ Len(whatsappLog) <= 1
    /\ (FacesReported /\ num_faces >= 1 /\ VerdictMask(JFalse) /\ alerts_enabled
          /\ pc \in Terminal) =>
           /\ pc = "AlertsSent"
           /\ Len(emailLog) = 1
           /\ Len(whatsappLog) = 1

C2_Witness ==
    /\ pc = "AlertsSent"
    /\ VerdictMask(JFalse)
    /\ Len(emailLog) = 1 /\ emailLog[1].result = "SMTPException"
    /\ Len(whatsappLog) = 1 /\ whatsappLog[1].result = "sent"

\* ----------------------------------------------------------------------- C3
\* C3: with at least one face and a verdict with mask_detected = true, no
\* sink is invoked, whether alerts are enabled or not, and the run ends in
\* MaskOk.
C3_MaskOkNoAlert ==
    (FacesReported /\ num_faces >= 1 /\ VerdictMask(JTrue)) =>
        /\ NoSinkInvoked
        /\ pc \in Terminal => pc = "MaskOk"

C3_Witness ==
    /\ pc = "MaskOk"
    /\ VerdictMask(JTrue)
    /\ alerts_enabled
    /\ num_faces >= 1

\* ----------------------------------------------------------------------- C4
\* C4: with alerts disabled, at least one face and a verdict with
\* mask_detected = false, no sink is invoked, the run ends in AlertsSkipped
\* and the status shown is the Violation status, not the mask-detected one.
C4_DisabledStillViolation ==
    (FacesReported /\ num_faces >= 1 /\ VerdictMask(JFalse) /\ ~alerts_enabled) =>
        /\ NoSinkInvoked
        /\ pc \in Terminal =>
             /\ pc = "AlertsSkipped"
             /\ Shown(StatusViolation)
             /\ ~Shown(StatusMaskOk)

C4_Witness ==
    /\ pc = "AlertsSkipped"
    /\ ~alerts_enabled
    /\ VerdictMask(JFalse)
    /\ num_faces >= 1

\* ----------------------------------------------------------------------- C5
\* C5: if the classifier call raises, or its content is not JSON, the
\* classifier returns None, no sink is invoked, the script does not crash
\* and the run ends in Indeterminate.
ClassifierFailed == ClassifierCalled /\ (Response.raised \/ ~Response.wellformed)

C5_ClassifierFailureAbsorbed ==
    ClassifierFailed =>
        /\ analysis_result = None
        /\ NoSinkInvoked
        /\ pc # "Crashed"
        /\ pc \in Terminal => pc = "Indeterminate"

C5_Witness ==
    /\ pc = "Indeterminate"
    /\ ClassifierCalled
    /\ ~Response.raised /\ ~Response.wellformed

\* ----------------------------------------------------------------------- C6
\* the response parsed as a JSON object that lacks mask_detected or reason
LacksKey ==
    /\ ClassifierCalled
    /\ ~Response.raised /\ Response.wellformed
    /\ Response.value.t = "object"
    /\ ~({"mask_detected", "reason"} \subseteq DOMAIN Response.value.fields)

GroqErrorShown ==
    \E i \in 1..Len(ui) : ui[i].fn = "error" /\ ui[i].text[1] = "Groq API Error: "

Decided == pc \in {"MaskOk", "Violation", "AlertsSkipped", "SendingEmail",
                   "SendingWhatsApp", "AlertsSent"}

C7_MissingConfigStops ==
    secrets \in {"FileNotFoundError", "KeyError"} =>
        /\ pc = "Stopped"
        /\ \E i \in 1..Len(ui) : ui[i].fn = "error"
        /\ detectLog = << >>
        /\ classifierLog = << >>
        /\ NoSinkInvoked

C7_Witness ==
    /\ pc = "Stopped"
    /\ secrets = "KeyError"

\* ----------------------------------------------------------------------- C8
DetectionFailed == FacesReported /\ detectLog[1].outcome.exc # "none"

\* C8: if face detection raises (missing cascade asset or any other
\* error), detect_faces reports it and returns a count of zero, and the
\* pipeline is in NoFace with the classifier and both sinks never invoked.
C8_DetectionFailureIsNoFace ==
    DetectionFailed =>
        /\ num_faces = 0
        /\ \E i \in 1..Len(ui) : ui[i].fn = "error"
        /\ pc = "NoFace"
        /\ classifierLog = << >>
        /\ NoSinkInvoked

C8_Witness ==
    /\ pc = "NoFace"
    /\ FacesReported
    /\ detectLog[1].outcome.exc = "Exception"

\* ----------------------------------------------------------------------- C9
\* the messages that tell the operator that the pipeline stopped at outcome o
Explains(o) ==
    CASE o = "NoFace" ->
           {m \in {ui[i] : i \in 1..Len(ui)} : m.fn = "warning" /\ m.text[1] =
              "No faces were detected in the image. Cannot proceed with mask analysis."}
      [] o = "Indeterminate" ->
           {m \in {ui[i] : i \in 1..Len(ui)} : m.fn = "error" /\ m.text[1] =
              "Groq API Error: "}
      [] o = "MaskOk" -> {m \in {ui[i] : i \in 1..Len(ui)} : m = StatusMaskOk}
      [] o = "AlertsSkipped" -> {m \in {ui[i] : i \in 1..Len(ui)} : m = StatusViolation}
      [] o = "AlertsSent" ->
           {m \in {ui[i] : i \in 1..Len(ui)} : m.fn = "warning" /\ m.text[1] =
              "Violation detected! Sending alerts..."}
      [] OTHER -> {}

\* C9: in every terminal outcome of the pipeline (NoFace, Indeterminate,
\* MaskOk, AlertsSkipped, AlertsSent) some message was shown that tells
\* the operator where and why the pipeline stopped.
C9_StopAlwaysExplained ==
    pc \in {"NoFace", "Indeterminate", "MaskOk", "AlertsSkipped", "AlertsSent"} =>
        Explains(pc) # {}

\* ---------------------------------------------------------------------- C10
\* C10: when the run ended in AlertsSent on a verdict whose reason is a
\* string, the email was handed a subject containing "Mask Violation" and
\* the reason itself as body, and the message body contains both
\* "Mask Violation" and the reason.
C10_AlertCarriesReason ==
    (pc = "AlertsSent" /\ HasKey(analysis_result, "reason")
       /\ analysis_result.fields["reason"].t = "str") =>
        /\ Len(emailLog) = 1
        /\ Contains(emailLog[1].subject, "Mask Violation")
        /\ emailLog[1].body = analysis_result.fields["reason"]
        /\ Len(whatsappLog) = 1
        /\ Contains(whatsappLog[1].body, "Mask Violation")
        /\ Contains(whatsappLog[1].body, analysis_result.fields["reason"].v)

C10_Witness ==
    /\ pc = "AlertsSent"
    /\ num_faces = 2
    /\ analysis_result = JObject([k \in {"mask_detected", "reason"} |->
                            IF k = "mask_detected" THEN JFalse
                            ELSE JStr("visible nose and mouth")])
    /\ emailLog[1].body = JStr("visible nose and mouth")

\* ---------------------------------------------------------------------- C11
\* C11: whatever the external calls produce, including any JSON value the
\* classifier returns (object, array, string, number, null), no exception
\* leaves the handler uncaught.
C11_NoUncaughtException ==
    pc # "Crashed"

\* ---------------------------------------------------------------------- C12
\* how far along the script a position is
Rank(p) ==
    CASE p = "Startup" -> 0
      [] p = "Sidebar" -> 1
      [] p = "ImageInput" -> 2
      [] p \in {"Stopped", "NoSource", "Idle"} -> 3
      [] p = "FaceCheck" -> 4
      [] p \in {"NoFace", "Classifying"} -> 5
      [] p = "Classified" -> 6
      [] p \in {"Indeterminate", "MaskOk", "Violation"} -> 7
      [] p \in {"AlertsSkipped", "SendingEmail"} -> 8
      [] p = "SendingWhatsApp" -> 9
      [] p = "AlertsSent" -> 10
      [] OTHER -> 11

\* the positions of the orchestrator's state machine: stages in progress
\* and the five terminal outcomes
OrchestratorStates ==
    {"Idle", "FaceCheck", "Classifying", "Classified", "Violation",
     "SendingEmail", "SendingWhatsApp",
     "NoFace", "Indeterminate", "MaskOk", "AlertsSkipped", "AlertsSent"}

InvocationStarted == Rank(pc) >= 4

\* every step moves forward
C12_Forward == [][Rank(pc') > Rank(pc)]_vars

\* the face locator ran exactly once after FaceCheck; the classifier and
\* each sink at most once
C12_CallCounts ==
    /\ Len(detectLog) <= 1
    /\ Rank(pc) >= 5 => Len(detectLog) = 1
    /\ Len(classifierLog) <= 1
    /\ Len(emailLog) <= 1
    /\ Len(whatsappLog) <= 1

\* C12: an invocation only moves forward through the orchestrator's
\* states, runs the face locator exactly once and the classifier and each
\* sink at most once, and is never anywhere but in a stage of the state
\* machine or in one of its terminal states (so it can only end in one).
C12_ForwardToOneTerminal ==
    /\ C12_Forward
    /\ []C12_CallCounts
    /\ [](InvocationStarted => pc \in OrchestratorStates)

\* ---------------------------------------------------------------------- C13
C13_BytesIntact ==
    /\ InvocationStarted =>
         /\ image_bytes \in Images
         /\ image_cv = Pixels(image_bytes, 0)
    /\ FacesReported =>
         /\ detectLog[1].image = Pixels(image_bytes, 0)
         /\ image_with_boxes = Pixels(image_bytes, num_faces)
    /\ \A i \in 1..Len(classifierLog) : classifierLog[i].image = image_bytes
    /\ \A i \in 1..Len(emailLog) : emailLog[i].image = image_bytes

\* C13: once read from the input, image_bytes never changes; the decoded
\* array stays free of rectangles (they are drawn on a copy); the classifier
\* and the email sink are both handed image_bytes itself.
C13_OriginalBytesPreserved ==
    /\ [][pc # "ImageInput" => image_bytes' = image_bytes]_vars
    /\ []C13_BytesIntact

C13_Witness ==
    /\ pc = "AlertsSent"
    /\ image_with_boxes.boxes = 2
    /\ image_cv.boxes = 0
    /\ classifierLog[1].image = image_bytes
    /\ emailLog[1].image = image_bytes

\* ---------------------------------------------------------------------- C14
VerdictAbsent == ClassifierCalled /\ num_faces >= 1 /\ analysis_result = None

\* C14: with at least one face and an absent verdict (None), no sink is
\* invoked, neither the mask-detected nor the violation status is ever
\* shown, and the run ends in Indeterminate; Indeterminate never shows a
\* status while MaskOk always shows the mask-detected one, so the two
\* outcomes can be told apart.
C14_IndeterminateDistinct ==
    /\ VerdictAbsent =>
         /\ NoSinkInvoked
         /\ ~Shown(StatusMaskOk)
         /\ ~Shown(StatusViolation)
         /\ pc \in {"Classified", "Indeterminate"}
    /\ pc = "Indeterminate" => ~Shown(StatusMaskOk) /\ ~Shown(StatusViolation)
    /\ pc = "MaskOk" => Shown(StatusMaskOk)

C14_Witness ==
    /\ pc = "Indeterminate"
    /\ VerdictAbsent
    /\ Response.raised
    /\ GroqErrorShown

\* ---------------------------------------------------------------------- C15
\* send_alert_email was called once and has returned: its toast or its
\* caught-failure message is on screen
EmailFinished ==
    /\ Len(emailLog) = 1
    /\ Shown(send_alert_email_msgs(emailLog[1].result)[1])

\* C15: the messaging sink is only ever attempted after the email attempt
\* of the same run was made and has finished, never before it or without it.
C15_EmailBeforeMessaging ==
    /\ [][whatsappLog' # whatsappLog => (EmailFinished /\ emailLog' = emailLog)]_vars
    /\ [](Len(whatsappLog) <= Len(emailLog))
    /\ [](pc = "SendingWhatsApp" => EmailFinished)

C15_Witness ==
    /\ pc = "AlertsSent"
    /\ Len(emailLog) = 1 /\ emailLog[1].result = "sent"
    /\ Len(whatsappLog) = 1 /\ whatsappLog[1].result = "TwilioRestException"
    /\ EmailFinished

\* ---------------------------------------------------------------------- C16
FalsyMaskValues == {JFalse, JNull, JNum("0"), JStr("")}

\* a non-empty object whose mask_detected is missing or falsy
AlertingVerdict(j) ==
    /\ j.t = "object"
    /\ DOMAIN j.fields # {}
    /\ \/ "mask_detected" \notin DOMAIN j.fields
       \/ j.fields["mask_detected"] \in FalsyMaskValues

ParsedVerdict == ClassifierCalled /\ ~Response.raised /\ Response.wellformed

\* C16: with at least one face, alerts enabled and a parsed response, the
\* run ends with both sinks dispatched exactly when the parsed value is a
\* non-empty object whose mask_detected is missing or one of false, null,
\* 0, ""; otherwise no sink is ever invoked.  A truthy non-boolean
\* mask_detected (1, "false") ends in MaskOk with the mask-detected status,
\* and the empty object ends in Indeterminate.
C16_TruthinessDecides ==
    (ParsedVerdict /\ num_faces >= 1 /\ alerts_enabled) =>
        /\ ~AlertingVerdict(Response.value) => NoSinkInvoked
        /\ pc \in Terminal =>
             /\ AlertingVerdict(Response.value) <=>
                  (pc = "AlertsSent" /\ Len(emailLog) = 1 /\ Len(whatsappLog) = 1)
             /\ (VerdictMask(JStr("false")) \/ VerdictMask(JNum("1"))) =>
                  (pc = "MaskOk" /\ Shown(StatusMaskOk))
             /\ Response.value = JObject(EmptyFields) => pc = "Indeterminate"

C16_Witness ==
    /\ pc = "MaskOk"
    /\ ParsedVerdict
    /\ VerdictMask(JStr("false"))
    /\ alerts_enabled
    /\ NoSinkInvoked

====
